---- MODULE Spec2Model ----
(***************************************************************************)
(* Model of the PDF Convert node (movalex/n8n-nodes-pdfconvert).           *)
(*                                                                         *)
(*   src/unnamed/part_000                    the in-memory backend         *)
(*                                           (pdf-img-convert) and the     *)
(*                                           page-expression parser        *)
(*   src/nodes/PdfConvert/PdfConvert.node.ts the file-based backend        *)
(*                                           (pdf2pic, temp files)         *)
(*                                                                         *)
(* Strings are sequences of one-character strings; messages are sequences  *)
(* of text fragments, so that "contains" and "includes" are computed.      *)
(***************************************************************************)
EXTENDS Integers, Sequences, FiniteSets, TLC

\* ------------------------------------------------------------------ bounds
\* longest page expression handed to the parser
MaxLen == 5
\* most input items of one run
MaxItems == 2
\* most pages of one PDF
MaxPages == 2
\* last value of the millisecond clock read by Date.now()
MaxClock == 1

\* ------------------------------------------------------------- characters
Digits == <<"0", "1", "2", "3">>
DigitSet == {Digits[i] : i \in DOMAIN Digits}
Alphabet == DigitSet \cup {",", "-", " ", "a"}

Strings(n) == UNION {[1..k -> Alphabet] : k \in 0..n}

Range(s) == {s[i] : i \in DOMAIN s}

\* ------------------------------------------------- JavaScript string helpers
isWhiteSpace(c) == c = " "

RECURSIVE trimStart(_)
trimStart(s) ==
  IF s # <<>> /\ isWhiteSpace(Head(s)) THEN trimStart(Tail(s)) ELSE s

RECURSIVE trimEnd(_)
trimEnd(s) ==
  IF s # <<>> /\ isWhiteSpace(s[Len(s)]) THEN trimEnd(SubSeq(s, 1, Len(s) - 1)) ELSE s

\* String.prototype.trim
trim(s) == trimEnd(trimStart(s))

\* String.prototype.includes for a one-character needle
includesChar(s, c) == \E i \in DOMAIN s : s[i] = c

\* String.prototype.split(sep): the pieces between the separators, empty ones kept
RECURSIVE split(_, _)
split(s, sep) ==
  IF ~includesChar(s, sep) THEN <<s>>
  ELSE LET i == CHOOSE k \in DOMAIN s : s[k] = sep /\ \A j \in 1..(k - 1) : s[j] # sep
       IN <<SubSeq(s, 1, i - 1)>> \o split(SubSeq(s, i + 1, Len(s)), sep)

DigitVal(c) == (CHOOSE i \in DOMAIN Digits : Digits[i] = c) - 1

RECURSIVE digitPrefix(_)
digitPrefix(s) ==
  IF s # <<>> /\ Head(s) \in DigitSet THEN <<Head(s)>> \o digitPrefix(Tail(s)) ELSE <<>>

RECURSIVE decimal(_)
decimal(ds) ==
  IF ds = <<>> THEN 0 ELSE 10 * decimal(SubSeq(ds, 1, Len(ds) - 1)) + DigitVal(ds[Len(ds)])

NaN == [nan |-> TRUE, value |-> 0]
Num(n) == [nan |-> FALSE, value |-> n]
isNaN(x) == x.nan

\* parseInt(s, 10): leading white space is skipped, then the longest run of
\* decimal digits is read and whatever follows it is ignored; no digit gives
\* NaN.  (A sign is never seen here: the range branch splits on "-" first and
\* the single-page branch is taken only when the token holds no "-"; "+" is
\* not in Alphabet.)
parseInt(s) ==
  LET ds == digitPrefix(trimStart(s))
  IN IF ds = <<>> THEN NaN ELSE Num(decimal(ds))

\* ------------------------------------------------------- parsePageNumbers
\* the faulty variant: a membership test that never finds the page
neverIncludes(pages, n) == FALSE
\* pages.includes(n)
includes(pages, n) == \E i \in DOMAIN pages : pages[i] = n

\* if (!pages.includes(n)) pages.push(n)
pushIfAbsent(pages, n) == IF includes(pages, n) THEN pages ELSE Append(pages, n)

\* for (let i = start; i <= end; i++) if (!pages.includes(i)) pages.push(i)
\* The integers start..end are pairwise different, so testing each against
\* the list as it was before the loop is testing it against the growing list.
pushRange(pages, start, end) ==
  pages \o SelectSeq([k \in 1..(end - start + 1) |-> start + k - 1],
                     LAMBDA i : ~includes(pages, i))

\* the outcome of a call: the list it returned, or the message of the
\* ApplicationError it threw
Ok(pages) == [state |-> "returned", pages |-> pages, error |-> <<>>]
Throw(msg) == [state |-> "threw", pages |-> <<>>, error |-> msg]
Pending == [state |-> "pending", pages |-> <<>>, error |-> <<>>]

\* one iteration of the loop over the parts: the pages after this part, or the
\* ApplicationError it throws
parsePart(pages, part) ==
  LET trimmed == trim(part)
  IN IF includesChar(trimmed, "-")
     THEN LET nums == split(trimmed, "-")
              start == parseInt(trim(nums[1]))
              end == parseInt(trim(nums[2]))
          IN IF isNaN(start) \/ isNaN(end) \/ start.value > end.value \/ start.value < 1
             THEN Throw(<<"Invalid page range: ">> \o trimmed)
             ELSE Ok(pushRange(pages, start.value, end.value))
     ELSE LET pageNum == parseInt(trimmed)
          IN IF isNaN(pageNum) \/ pageNum.value < 1
             THEN Throw(<<"Invalid page number: ">> \o trimmed)
             ELSE Ok(pushIfAbsent(pages, pageNum.value))

RECURSIVE parseParts(_, _)
parseParts(pages, parts) ==
  IF parts = <<>> THEN Ok(pages)
  ELSE LET r == parsePart(pages, Head(parts))
       IN IF r.state = "returned" THEN parseParts(r.pages, Tail(parts)) ELSE r

\* pages.sort((a, b) => a - b)
sortAscending(pages) == SortSeq(pages, LAMBDA a, b : a < b)

parsePageNumbers(pagesParam) ==
  LET r == parseParts(<<>>, split(pagesParam, ","))
  IN IF r.state = "returned" THEN Ok(sortAscending(r.pages)) ELSE r

\* ------------------------------------------------------------------ state
VARIABLES
  expr,            \* the expression handed to parsePageNumbers called on its own
  parsed,          \* what that call returned or threw; Pending before the call
  backend,         \* backend[r]: "memory" (part_000) or "file" (PdfConvert.node.ts)
  continueOnFail,  \* continueOnFail[r]: this.continueOnFail()
  items,           \* items[r]: this.getInputData()
  itemIndex,       \* itemIndex[r]: the loop counter, from 0
  returnData,      \* returnData[r]
  pc,              \* pc[r]: where execute stands
  cur,             \* cur[r]: the locals of the item being processed (file backend)
  output,          \* output[r]: what execute returned or threw
  last,            \* last[r]: history, how the latest item of the run ended
  files,           \* the temp directory: path -> what the file holds
  now              \* Date.now()

parseVars == <<expr, parsed>>
runVars == <<backend, continueOnFail, items, itemIndex, returnData, pc, cur,
             output, last, files, now>>
vars == <<expr, parsed, backend, continueOnFail, items, itemIndex, returnData,
          pc, cur, output, last, files, now>>

\* ------------------------------------------------------------- errors
\* An Error object: its message (text fragments), whether it carries a
\* .context (NodeOperationError does, ApplicationError and plain Errors do
\* not) and, as history, the step that raised it.
NoFault == [kind |-> "none", message |-> <<>>, context |-> FALSE]
Fault(kind, message, context) == [kind |-> kind, message |-> message, context |-> context]

\* diagnostic texts of faults raised by the host, the file system or a backend
Diagnostics == {<<"unexpected failure">>, <<"no binary field '", "pdf2pic", "'">>}

\* errorMessage.includes('pdf2pic')
mentionsPdf2pic(message) == \E i \in DOMAIN message : message[i] = "pdf2pic"

CanvasHint == ". This might be due to missing Canvas dependencies. Please ensure the n8n container has the required system dependencies installed."
MagickHint == ". Make sure GraphicsMagick or ImageMagick is installed in your system."

\* ------------------------------------------------------------- output records
\* The format parameter only shapes names and labels; one value is drawn.
Formats == {"png"}
mimeType(format) == IF format = "png" THEN "image/png" ELSE "image/jpeg"
OutputProperty == "images"

\* outputItem.binary[`${outputProperty}_page_${image.pageNumber}`] = {...},
\* image after image: a later image with the same key replaces the earlier one
RECURSIVE addBinary(_, _)
addBinary(binary, images) ==
  IF images = <<>> THEN binary
  ELSE LET image == Head(images)
           key == <<OutputProperty, "_page_", image.pageNumber>>
       IN addBinary((key :> [data |-> image.data, mimeType |-> image.mimeType,
                             fileName |-> image.fileName])
                    @@ binary, Tail(images))

NoBinary == [k \in {} |-> 0]

\* a successful item's record; json spreads the input item's fields
outputItem(item, images, format) ==
  [json |-> [fields |-> item.json, totalPages |-> Len(images), format |-> format,
             error |-> <<>>],
   binary |-> addBinary(NoBinary, images),
   pairedItem |-> -1]

\* the faulty variant: the back-reference always names the first item
wrongPairedItem(item, errorMessage, index) ==
  [json |-> [fields |-> item.json, totalPages |-> 0, format |-> "", error |-> errorMessage],
   binary |-> NoBinary,
   pairedItem |-> 0]
\* returnData.push({json: {...items[itemIndex].json, error: errorMessage, ...},
\*                  pairedItem: itemIndex})
failureRecord(item, errorMessage, index) ==
  [json |-> [fields |-> item.json, totalPages |-> 0, format |-> "", error |-> errorMessage],
   binary |-> NoBinary,
   pairedItem |-> index]

\* the faulty variant: the error is built without its { itemIndex }
untaggedError(errorMessage, index) == [message |-> errorMessage, itemIndex |-> -1]
\* new NodeOperationError(this.getNode(), errorMessage, { itemIndex })
nodeOperationError(errorMessage, index) == [message |-> errorMessage, itemIndex |-> index]

NotEnded == [state |-> "running", batch |-> <<>>, error |-> nodeOperationError(<<>>, -1)]
Returned(batch) == [state |-> "returned", batch |-> batch, error |-> nodeOperationError(<<>>, -1)]
Thrown(error) == [state |-> "threw", batch |-> <<>>, error |-> error]

\* ------------------------------------------------------------- history
\* How the latest item ended: its index, the first fault raised while
\* processing it (NoFault when none), whether a delete failed, the page count
\* of its PDF and the selection (0 pages and no selection when the item failed
\* before they were known), the page numbers its images were tagged with, and
\* the files it created that are still there.
NoSelection == [defined |-> FALSE, list |-> <<>>]
Selection(list) == [defined |-> TRUE, list |-> list]

LogEntry(index, primary, deleteFailed, numPages, selection, tags, leftover) ==
  [index |-> index, primary |-> primary, deleteFailed |-> deleteFailed,
   numPages |-> numPages, selection |-> selection, tags |-> tags, leftover |-> leftover]

NoEntry == LogEntry(-1, NoFault, FALSE, 0, NoSelection, <<>>, {})

\* ------------------------------------------------------ the end of an item
\* What both catch blocks do once the user-facing error is known: in
\* continue-on-failure mode one diagnostic record and on to the next item,
\* otherwise the error goes to the host, tagged with the item's index.
EndWithFailure(r, userError, entry) ==
  /\ last' = [last EXCEPT ![r] = entry]
  /\ IF continueOnFail[r]
     THEN /\ returnData' = [returnData EXCEPT ![r] =
                 Append(@, failureRecord(items[r][itemIndex[r] + 1], userError.message,
                                         itemIndex[r]))]
          /\ itemIndex' = [itemIndex EXCEPT ![r] = @ + 1]
          /\ pc' = [pc EXCEPT ![r] = "loop"]
          /\ UNCHANGED output
     ELSE /\ output' = [output EXCEPT ![r] = Thrown(userError)]
          /\ pc' = [pc EXCEPT ![r] = "threw"]
          /\ UNCHANGED <<returnData, itemIndex>>

EndWithResult(r, record, entry) ==
  /\ last' = [last EXCEPT ![r] = entry]
  /\ returnData' = [returnData EXCEPT ![r] = Append(@, record)]
  /\ itemIndex' = [itemIndex EXCEPT ![r] = @ + 1]
  /\ pc' = [pc EXCEPT ![r] = "loop"]
  /\ UNCHANGED output

\* ------------------------------------------------ the in-memory backend
\* What one item brings: the parameter values, what the host's helpers do, and
\* the PDF behind the bytes (its page count, or the fault converting it gives).
HostFaults(kind) == {Fault(kind, m, c) : m \in Diagnostics, c \in BOOLEAN}
PagesParams == {<<>>, <<" ">>, <<"2">>, <<"1", "-", "2">>, <<"2", ",", "1", ",", "2">>, <<"0">>}
MemoryInput(parameterFault, inputType, binaryFault, base64Data, pagesParam, format, n, f) ==
  [parameterFault |-> parameterFault, inputType |-> inputType, binaryFault |-> binaryFault,
   base64Data |-> base64Data, pagesParam |-> pagesParam, outputFormat |-> format,
   numPages |-> n, conversionFault |-> f]

\* a value that is never read (the code has thrown before) is listed once
MemoryInputs ==
  {MemoryInput(f, "binaryData", NoFault, <<>>, <<>>, "png", 1, NoFault) :
     f \in HostFaults("parameter")}
  \cup {MemoryInput(NoFault, "binaryData", f, <<>>, <<>>, "png", 1, NoFault) :
     f \in HostFaults("source")}
  \cup {MemoryInput(NoFault, "base64", NoFault, <<>>, <<>>, "png", 1, NoFault),
        MemoryInput(NoFault, "url", NoFault, <<>>, <<>>, "png", 1, NoFault)}
  \cup {MemoryInput(NoFault, t[1], NoFault, t[2], pagesParam, outputFormat, numPages, f) :
     t \in {<<"binaryData", <<>> >>, <<"base64", <<"JVBERi0x">> >>},
     pagesParam \in PagesParams, outputFormat \in Formats, numPages \in 1..MaxPages,
     f \in {NoFault} \cup {Fault("conversion", m, FALSE) : m \in Diagnostics}}

\* pdf2img.convert(pdfBuffer, {page_numbers}): one image per requested page
\* of the document, in request order; every page, 1..numPages, when no list
\* is given.  An image is named here by the page it renders.
pdf2imgConvert(numPages, pageNumbers) ==
  SelectSeq(IF pageNumbers.defined THEN pageNumbers.list ELSE [k \in 1..numPages |-> k],
            LAMBDA n : n \in 1..numPages)

\* outputImages.map((imageData, index) => ({..., pageNumber}))
memoryImages(outputImages, pageNumbers, outputFormat) ==
  [index \in 1..Len(outputImages) |->
     LET pageNumber == IF pageNumbers.defined THEN pageNumbers.list[index] ELSE index
     IN [data |-> outputImages[index], mimeType |-> mimeType(outputFormat),
         fileName |-> <<"page_", pageNumber, ".", outputFormat>>,
         pageNumber |-> pageNumber]]

\* the first fault of the steps before the conversion, in the order the code
\* takes them: the parameters, the source, the page expression
memorySourceFault(inp) ==
  IF inp.parameterFault # NoFault THEN inp.parameterFault
  ELSE IF inp.inputType = "binaryData" THEN inp.binaryFault
  ELSE IF inp.inputType = "base64"
       THEN IF inp.base64Data = <<>>
            THEN Fault("source", <<"Base64 data is required when input type is base64">>, TRUE)
            ELSE NoFault
  ELSE Fault("source", <<"Unknown input type: ", inp.inputType>>, TRUE)

\* let pageNumbers; if (pagesParam.trim()) pageNumbers = parsePageNumbers(pagesParam)
memoryPages(inp) ==
  IF trim(inp.pagesParam) = <<>> THEN Ok(<<>>) ELSE parsePageNumbers(inp.pagesParam)

memoryPageNumbers(inp) ==
  IF trim(inp.pagesParam) = <<>> THEN NoSelection ELSE Selection(memoryPages(inp).pages)

memoryFault(inp) ==
  IF memorySourceFault(inp) # NoFault THEN memorySourceFault(inp)
  ELSE IF memoryPages(inp).state = "threw"
       THEN Fault("pages", memoryPages(inp).error, FALSE)
  ELSE inp.conversionFault

\* The message the user sees.  The inner catch (around the conversion) wraps
\* the backend's text; the outer catch passes error.message on.
memoryErrorMessage(fault) ==
  IF fault.kind = "conversion"
  THEN <<"PDF conversion failed: ">> \o fault.message \o <<CanvasHint>>
  ELSE fault.message

\* What reaches the host in fail-fast mode: the inner catch throws a
\* NodeOperationError that the outer catch rethrows (it has a context); the
\* outer catch rethrows an error that has a context, its itemIndex set, and
\* wraps any other error in a NodeOperationError.
memoryThrown(fault, index) ==
  IF fault.kind = "conversion" THEN nodeOperationError(memoryErrorMessage(fault), index)
  ELSE IF fault.context THEN [message |-> fault.message, itemIndex |-> index]
  ELSE nodeOperationError(fault.message, index)

\* one pass of the loop body of the in-memory backend
ExecuteMemoryItem(r) ==
  /\ backend[r] = "memory"
  /\ pc[r] = "loop"
  /\ itemIndex[r] < Len(items[r])
  /\ \E inp \in MemoryInputs :
       LET item == items[r][itemIndex[r] + 1]
           fault == memoryFault(inp)
           pageNumbers == memoryPageNumbers(inp)
           images == memoryImages(pdf2imgConvert(inp.numPages, pageNumbers),
                                  pageNumbers, inp.outputFormat)
       IN IF fault = NoFault
          THEN EndWithResult(r, outputItem(item, images, inp.outputFormat),
                             LogEntry(itemIndex[r], NoFault, FALSE, inp.numPages, pageNumbers,
                                      [j \in DOMAIN images |-> images[j].pageNumber], {}))
          ELSE EndWithFailure(r, memoryThrown(fault, itemIndex[r]),
                              LogEntry(itemIndex[r], fault, FALSE, 0, NoSelection, <<>>, {}))
  /\ UNCHANGED <<parseVars, backend, continueOnFail, items, cur, files, now>>

\* ------------------------------------------------ the file-based backend
\* path.join(tempDir, `pdf_${Date.now()}_${itemIndex}.pdf`)
tempPdfPathOf(time, index) == <<"pdf_", time, index, "pdf">>

\* pdf2pic, set up with saveFilename 'page' and savePath tempDir, writes page
\* n to `page.${n}.${format}` in the temp directory (the third component is
\* unused for these paths)
imagePath(page, format) == <<"page.", page, 0, format>>

\* what a file holds: the call that wrote it
Content(r) == [by |-> <<r, itemIndex[r]>>]

Idle == [tempPdfPath |-> <<>>, format |-> "", numPages |-> 0, results |-> <<>>, k |-> 0,
         images |-> <<>>, pending |-> NoFault, deleteFailed |-> FALSE, created |-> {}]

writeFile(dir, path, content) == (path :> content) @@ dir
unlink(dir, path) == [q \in DOMAIN dir \ {path} |-> dir[q]]

\* The file-based node reads no .context of an error, so one value stands for
\* both kinds of error object.
FileHostFaults == {Fault(kind, m, FALSE) : kind \in {"parameter", "source"}, m \in Diagnostics}

\* the faulty variant: the hinted message leaves the backend's text out
fileDropsDiagnostic(fault) ==
  IF mentionsPdf2pic(fault.message) THEN <<"PDF conversion failed", MagickHint>> ELSE fault.message
\* let errorMessage = error.message;
\* if (errorMessage.includes('pdf2pic')) errorMessage = `PDF conversion failed: ...`
fileErrorMessage(fault) ==
  IF mentionsPdf2pic(fault.message)
  THEN <<"PDF conversion failed: ">> \o fault.message \o <<MagickHint>>
  ELSE fault.message

fileThrown(fault, index) == nodeOperationError(fileErrorMessage(fault), index)

\* the faulty variant: an unlink outside any try, its error replacing the pending one
cleanupErrorWins(pending, cleanupError) == IF cleanupError # NoFault THEN cleanupError ELSE pending
\* try { await fs.promises.unlink(...) } catch (cleanupError) { /* ignored */ }
\* the error, if any, that is still on its way to the catch block afterwards
afterCleanup(pending, cleanupError) == pending

UnlinkFault == Fault("unlink", <<"EPERM: operation not permitted, unlink">>, FALSE)

\* pageNumber: result.page || 1   (no page reported is page 0 here)
pageNumberOf(result) == IF result.page = 0 THEN 1 ELSE result.page

\* lines 70-85: the parameters, the binary data, the temp path
FileReadInputs(r) ==
  /\ backend[r] = "file"
  /\ pc[r] = "loop"
  /\ itemIndex[r] < Len(items[r])
  /\ \E fault \in {NoFault} \cup FileHostFaults, format \in Formats :
       IF fault # NoFault
       THEN /\ EndWithFailure(r, fileThrown(fault, itemIndex[r]),
                              LogEntry(itemIndex[r], fault, FALSE, 0, NoSelection, <<>>, {}))
            /\ UNCHANGED cur
       ELSE /\ cur' = [cur EXCEPT ![r] =
                   [Idle EXCEPT !.tempPdfPath = tempPdfPathOf(now, itemIndex[r]),
                                !.format = format]]
            /\ pc' = [pc EXCEPT ![r] = "write"]
            /\ UNCHANGED <<itemIndex, returnData, output, last>>
  /\ UNCHANGED <<parseVars, backend, continueOnFail, items, files, now>>

\* line 87: await fs.promises.writeFile(tempPdfPath, pdfBuffer), outside the
\* try/finally; a failed write may have created the file already
FileWrite(r) ==
  /\ pc[r] = "write"
  /\ \E written \in BOOLEAN, fault \in {NoFault} \cup {Fault("write", m, FALSE) : m \in Diagnostics} :
       LET path == cur[r].tempPdfPath
       IN /\ fault = NoFault => written
          /\ files' = IF written THEN writeFile(files, path, Content(r)) ELSE files
          /\ IF fault = NoFault
             THEN /\ cur' = [cur EXCEPT ![r].created = {path}]
                  /\ pc' = [pc EXCEPT ![r] = "convert"]
                  /\ UNCHANGED <<itemIndex, returnData, output, last>>
             ELSE /\ EndWithFailure(r, fileThrown(fault, itemIndex[r]),
                                    LogEntry(itemIndex[r], fault, FALSE, 0, NoSelection, <<>>,
                                             IF written THEN {path} ELSE {}))
                  /\ cur' = [cur EXCEPT ![r] = Idle]
  /\ UNCHANGED <<parseVars, backend, continueOnFail, items, now>>

\* lines 91-104: fromPath(...).bulk(-1).  The tool writes one image file per
\* page and reports, per page, the file's path and the page number; the
\* declared result type makes the page number optional.  A failing call may
\* have written some of the images.
FileConvert(r) ==
  /\ pc[r] = "convert"
  /\ \E numPages \in 1..MaxPages :
     \E reportsPage \in BOOLEAN, produced \in 0..numPages,
        fault \in {NoFault} \cup {Fault("conversion", m, FALSE) : m \in Diagnostics} :
       LET format == cur[r].format
           made == IF fault = NoFault THEN 1..numPages ELSE 1..produced
           paths == {imagePath(n, format) : n \in made}
       IN /\ fault = NoFault => produced = numPages
          /\ fault # NoFault => reportsPage
          /\ files' = [q \in DOMAIN files \cup paths |->
                         IF q \in paths THEN Content(r) ELSE files[q]]
          /\ cur' = [cur EXCEPT ![r].numPages = numPages,
                                ![r].created = @ \cup paths,
                                ![r].pending = fault,
                                ![r].k = 1,
                                ![r].results =
                                  IF fault # NoFault THEN <<>>
                                  ELSE [n \in 1..numPages |->
                                          [page |-> IF reportsPage THEN n ELSE 0,
                                           path |-> imagePath(n, format)]]]
          /\ pc' = [pc EXCEPT ![r] = IF fault = NoFault THEN "read" ELSE "finally"]
  /\ UNCHANGED <<parseVars, backend, continueOnFail, items, itemIndex, returnData, output, last, now>>

\* lines 114-122: if (result.path) { readFile(result.path); images.push(...) }
\* (every result of this configuration carries its path)
FileReadImage(r) ==
  /\ pc[r] = "read"
  /\ cur[r].k <= Len(cur[r].results)
  /\ LET result == cur[r].results[cur[r].k]
         format == cur[r].format
     IN \E fault \in {NoFault} \cup {Fault("read", m, FALSE) : m \in Diagnostics} :
          /\ result.path \notin DOMAIN files => fault # NoFault
          /\ IF fault = NoFault
             THEN /\ cur' = [cur EXCEPT ![r].images = Append(@,
                         [data |-> files[result.path], mimeType |-> mimeType(format),
                          fileName |-> <<"page_", result.page, ".", format>>,
                          pageNumber |-> pageNumberOf(result)])]
                  /\ pc' = [pc EXCEPT ![r] = "unlinkImage"]
             ELSE /\ cur' = [cur EXCEPT ![r].pending = fault]
                  /\ pc' = [pc EXCEPT ![r] = "finally"]
  /\ UNCHANGED <<parseVars, backend, continueOnFail, items, itemIndex, returnData, output, last,
                 files, now>>

\* lines 124-129: the image file is deleted; a failing delete is ignored
FileUnlinkImage(r) ==
  /\ pc[r] = "unlinkImage"
  /\ LET path == cur[r].results[cur[r].k].path
     IN \E cleanupError \in {NoFault, UnlinkFault} :
          /\ path \notin DOMAIN files => cleanupError # NoFault
          /\ files' = IF cleanupError = NoFault THEN unlink(files, path) ELSE files
          /\ cur' = [cur EXCEPT ![r].k = @ + 1,
                                ![r].deleteFailed = @ \/ cleanupError # NoFault,
                                ![r].pending = afterCleanup(@, cleanupError)]
  /\ pc' = [pc EXCEPT ![r] = "read"]
  /\ UNCHANGED <<parseVars, backend, continueOnFail, items, itemIndex, returnData, output, last, now>>

\* lines 134-158: the output item is built and pushed
FileAssemble(r) ==
  /\ pc[r] = "read"
  /\ cur[r].k > Len(cur[r].results)
  /\ returnData' = [returnData EXCEPT ![r] =
        Append(@, outputItem(items[r][itemIndex[r] + 1], cur[r].images, cur[r].format))]
  /\ pc' = [pc EXCEPT ![r] = "finally"]
  /\ UNCHANGED <<parseVars, backend, continueOnFail, items, itemIndex, cur, output, last, files, now>>

\* lines 160-189: the finally block deletes the temp PDF, a failing delete
\* ignored; then the item is over, or the pending error reaches the catch block
FileFinally(r) ==
  /\ pc[r] = "finally"
  /\ \E cleanupError \in {NoFault, UnlinkFault} :
       LET path == cur[r].tempPdfPath
           dir == IF cleanupError = NoFault THEN unlink(files, path) ELSE files
           error == afterCleanup(cur[r].pending, cleanupError)
           entry == LogEntry(itemIndex[r], cur[r].pending, cur[r].deleteFailed \/ cleanupError # NoFault,
                             cur[r].numPages, NoSelection,
                             [j \in DOMAIN cur[r].images |-> cur[r].images[j].pageNumber],
                             cur[r].created \cap DOMAIN dir)
       IN /\ path \notin DOMAIN files => cleanupError # NoFault
          /\ files' = dir
          /\ IF error = NoFault
             THEN /\ last' = [last EXCEPT ![r] = entry]
                  /\ itemIndex' = [itemIndex EXCEPT ![r] = @ + 1]
                  /\ pc' = [pc EXCEPT ![r] = "loop"]
                  /\ UNCHANGED <<returnData, output>>
             ELSE EndWithFailure(r, fileThrown(error, itemIndex[r]), entry)
  /\ cur' = [cur EXCEPT ![r] = Idle]
  /\ UNCHANGED <<parseVars, backend, continueOnFail, items, now>>

\* return [returnData]
Return(r) ==
  /\ pc[r] = "loop"
  /\ itemIndex[r] = Len(items[r])
  /\ output' = [output EXCEPT ![r] = Returned(returnData[r])]
  /\ pc' = [pc EXCEPT ![r] = "returned"]
  /\ UNCHANGED <<parseVars, backend, continueOnFail, items, itemIndex, returnData, cur, last,
                 files, now>>

\* a millisecond passes
Tick ==
  /\ now < MaxClock
  /\ now' = now + 1
  /\ UNCHANGED <<parseVars, backend, continueOnFail, items, itemIndex, returnData, pc, cur,
                 output, last, files>>

\* ------------------------------------------------------- specifications
InputItems(n) == [i \in 1..n |-> [json |-> [id |-> i]]]

InitRuns(ids) ==
  /\ backend \in [ids -> {"memory", "file"}]
  /\ continueOnFail \in [ids -> BOOLEAN]
  /\ items \in [ids -> {InputItems(n) : n \in 0..MaxItems}]
  /\ itemIndex = [r \in ids |-> 0]
  /\ returnData = [r \in ids |-> <<>>]
  /\ pc = [r \in ids |-> "loop"]
  /\ cur = [r \in ids |-> Idle]
  /\ output = [r \in ids |-> NotEnded]
  /\ last = [r \in ids |-> NoEntry]
  /\ files = [q \in {} |-> Content(1)]
  /\ now = 0

FileStep(r) ==
  \/ FileReadInputs(r)
  \/ FileWrite(r)
  \/ FileConvert(r)
  \/ FileReadImage(r)
  \/ FileUnlinkImage(r)
  \/ FileAssemble(r)
  \/ FileFinally(r)

Step(r) == ExecuteMemoryItem(r) \/ FileStep(r) \/ Return(r)

\* one execution of the node, with either backend (the clock plays no part
\* in a single execution: its temp PDF paths differ by the item index)
Init == InitRuns({1}) /\ expr = <<>> /\ parsed = Pending
Next == \E r \in {1} : Step(r)
Spec == Init /\ [][Next]_vars

\* two executions of the file-based node at the same time, one item each,
\* sharing the temp directory and the clock
InitShared ==
  /\ InitRuns({1, 2})
  /\ \A r \in {1, 2} : backend[r] = "file" /\ Len(items[r]) = 1
  /\ expr = <<>> /\ parsed = Pending
NextShared == Tick \/ \E r \in {1, 2} : FileStep(r) \/ Return(r)
SpecShared == InitShared /\ [][NextShared]_vars

\* the parser called on its own, on every expression of up to MaxLen characters
InitParse ==
  /\ expr \in Strings(MaxLen)
  /\ parsed = Pending
  /\ InitRuns({})

CallParse ==
  /\ parsed = Pending
  /\ parsed' = parsePageNumbers(expr)
  /\ UNCHANGED expr
  /\ UNCHANGED runVars

SpecParse == InitParse /\ [][CallParse]_vars

\* =================================================================== claims
Runs == DOMAIN pc

IsNormal(record) == record.json.error = <<>> /\ record.pairedItem = -1
IsDiagnostic(record, index) == record.json.error # <<>> /\ record.pairedItem = index

\* the record of the latest ended item, and the message the user was given for it
LastRecord(r) == returnData[r][last[r].index + 1]
ReportedMessage(r) ==
  IF continueOnFail[r] THEN LastRecord(r).json.error ELSE output[r].error.message

Contains(message, text) ==
  \E i \in 0..(Len(message) - Len(text)) : SubSeq(message, i + 1, i + Len(text)) = text
Hinted(message) == \E i \in DOMAIN message : message[i] \in {CanvasHint, MagickHint}

\* ---- the parser
Tokens == split(expr, ",")
\* what a token stands for: one page, or every integer of an inclusive range
TokenPages(token) ==
  LET t == trim(token)
  IN IF includesChar(t, "-")
     THEN parseInt(trim(split(t, "-")[1])).value .. parseInt(trim(split(t, "-")[2])).value
     ELSE {parseInt(t).value}

StrictlyAscending(list) == \A i \in 1..(Len(list) - 1) : list[i] < list[i + 1]

\* C1: every list parsePageNumbers returns is the union of the pages its
\* tokens stand for, strictly ascending (so without repeats), every page >= 1.
C1_SortedUnion ==
  parsed.state = "returned" =>
    /\ StrictlyAscending(parsed.pages)
    /\ \A i \in DOMAIN parsed.pages : parsed.pages[i] >= 1
    /\ Range(parsed.pages) = UNION {TokenPages(Tokens[i]) : i \in DOMAIN Tokens}

\* an accepted expression whose tokens are out of order and overlap
C1_Witness ==
  /\ parsed.state = "returned"
  /\ \E i, j \in DOMAIN Tokens :
       /\ i < j
       /\ \E n \in TokenPages(Tokens[i]) : \E m \in TokenPages(Tokens[j]) : m < n
  /\ \E i, j \in DOMAIN Tokens : i # j /\ TokenPages(Tokens[i]) \cap TokenPages(Tokens[j]) # {}

\* a token that is exactly a positive integer, or exactly integer-integer with
\* 1 <= start <= end (white space around the token and its bounds allowed)
AllDigits(t) == t # <<>> /\ \A i \in DOMAIN t : t[i] \in DigitSet
WellFormed(token) ==
  LET t == trim(token)
      bounds == split(t, "-")
  IN \/ AllDigits(t) /\ decimal(t) >= 1
     \/ /\ Len(bounds) = 2
        /\ AllDigits(trim(bounds[1])) /\ AllDigits(trim(bounds[2]))
        /\ 1 <= decimal(trim(bounds[1]))
        /\ decimal(trim(bounds[1])) <= decimal(trim(bounds[2]))

\* C2: parsePageNumbers fails on every expression with a malformed token.
C2_MalformedTokenFails ==
  (parsed # Pending /\ \E i \in DOMAIN Tokens : ~WellFormed(Tokens[i])) => parsed.state = "threw"

\* ---- the item loop
\* C3: in continue-on-failure mode the run never throws, holds one record per
\* ended item, in input order, each carrying its item's fields: a normal
\* result for an item that succeeded, a diagnostic record with error text
\* and pairedItem = index for one that failed; the returned batch has one
\* record per input item.
C3_OneRecordPerItem ==
  \A r \in Runs : continueOnFail[r] =>
    /\ pc[r] # "threw" /\ output[r].state # "threw"
    /\ pc[r] \in {"loop", "returned"} => Len(returnData[r]) = itemIndex[r]
    /\ pc[r] = "returned" =>
         output[r].batch = returnData[r] /\ Len(output[r].batch) = Len(items[r])
    /\ \A i \in DOMAIN returnData[r] :
         /\ returnData[r][i].json.fields = items[r][i].json
         /\ IsNormal(returnData[r][i]) \/ IsDiagnostic(returnData[r][i], i - 1)
    /\ last[r].index >= 0 =>
         IF last[r].primary = NoFault
         THEN IsNormal(LastRecord(r))
         ELSE IsDiagnostic(LastRecord(r), last[r].index)

\* a returned batch in which a diagnostic record is followed by a normal result
C3_Witness ==
  \E r \in Runs :
    /\ continueOnFail[r] /\ pc[r] = "returned"
    /\ \E i \in DOMAIN output[r].batch :
         /\ i + 1 \in DOMAIN output[r].batch
         /\ IsDiagnostic(output[r].batch[i], i - 1)
         /\ IsNormal(output[r].batch[i + 1])

\* C4: in fail-fast mode an item that fails ends the run at once: the error
\* thrown carries that item's index, no batch is returned, nothing further
\* happens in the run; a run that returns had no failing item.
C4_FailFastAborts ==
  \A r \in Runs : ~continueOnFail[r] =>
    /\ (last[r].index >= 0 /\ last[r].primary # NoFault) => pc[r] = "threw"
    /\ pc[r] = "threw" =>
         /\ output[r].state = "threw" /\ output[r].batch = <<>>
         /\ output[r].error.itemIndex = itemIndex[r]
         /\ last[r].index = itemIndex[r] /\ last[r].primary # NoFault
         /\ cur[r] = Idle
         /\ ~ENABLED Step(r)
    /\ pc[r] = "returned" =>
         /\ Len(output[r].batch) = Len(items[r])
         /\ \A i \in DOMAIN output[r].batch : IsNormal(output[r].batch[i])

\* a run aborted by its second item, after the first one had succeeded
C4_Witness ==
  \E r \in Runs :
    /\ ~continueOnFail[r] /\ pc[r] = "threw"
    /\ itemIndex[r] = 1 /\ Len(returnData[r]) = 1 /\ Len(items[r]) > 1

\* C5: with the file-based backend, once an item has ended and no delete
\* failed, none of the files created for it is left in the temp directory.
C5_NoTempFileRemains ==
  \A r \in Runs :
    (backend[r] = "file" /\ last[r].index >= 0 /\ ~last[r].deleteFailed)
      => last[r].leftover = {}

\* C6: a converted item has one image per page, tagged 1..P, when nothing was
\* selected, and one image per selected page, tagged with it, when the
\* selection names pages of the document; totalPages is the image count.
C6_ImagesMatchSelection ==
  \A r \in Runs : (last[r].index >= 0 /\ last[r].primary = NoFault) =>
    /\ LastRecord(r).json.totalPages = Len(last[r].tags)
    /\ ~last[r].selection.defined => last[r].tags = [k \in 1..last[r].numPages |-> k]
    /\ (last[r].selection.defined
          /\ Range(last[r].selection.list) \subseteq 1..last[r].numPages)
         => last[r].tags = last[r].selection.list

\* C7: no two conversion calls in flight at the same time use one temp path.
InFlight(r) == pc[r] \in {"write", "convert", "read", "unlinkImage", "finally"}
TempPaths(r) ==
  {cur[r].tempPdfPath} \cup {cur[r].results[k].path : k \in DOMAIN cur[r].results}
C7_NoSharedTempPath ==
  \A r1, r2 \in Runs :
    (r1 # r2 /\ InFlight(r1) /\ InFlight(r2)) => TempPaths(r1) \cap TempPaths(r2) = {}

\* C8: with the file-based backend a failing delete never changes how the item
\* ends: without a primary fault its normal result is appended, and with one
\* the message reported is the one made from the primary fault.
C8_DeleteFailureKeepsOutcome ==
  \A r \in Runs : (backend[r] = "file" /\ last[r].index >= 0) =>
    IF last[r].primary = NoFault
    THEN pc[r] # "threw" /\ IsNormal(LastRecord(r))
    ELSE /\ last[r].primary.kind # "unlink"
         /\ ReportedMessage(r) = fileErrorMessage(last[r].primary)
         /\ continueOnFail[r] => IsDiagnostic(LastRecord(r), last[r].index)
         /\ ~continueOnFail[r] => pc[r] = "threw"

\* the first item succeeded although the delete of its temp PDF failed (the
\* file is still there), the second failed and one of its deletes failed too
C8_Witness ==
  \E r \in Runs :
    /\ backend[r] = "file" /\ last[r].index = 1
    /\ IsNormal(returnData[r][1])
    /\ \E t \in 0..MaxClock : tempPdfPathOf(t, 0) \in DOMAIN files
    /\ last[r].deleteFailed /\ last[r].primary # NoFault

\* C9 as stated: the message holds the fault's text unchanged, and a hint is
\* added only for a conversion fault whose text matches a known signature
\* ('pdf2pic' is the only pattern either node tests for).
KnownSignature(message) == mentionsPdf2pic(message)
C9_HintOnlyForKnownConversionFault ==
  \A r \in Runs : (last[r].index >= 0 /\ last[r].primary # NoFault) =>
    /\ Contains(ReportedMessage(r), last[r].primary.message)
    /\ Hinted(ReportedMessage(r)) =>
         last[r].primary.kind = "conversion" /\ KnownSignature(last[r].primary.message)

\* C9 as amended: the message is the fault's text, or that text between
\* "PDF conversion failed: " and a hint; the in-memory node adds the hint to
\* every conversion fault and to no other, the file-based node to every fault
\* whose text mentions pdf2pic, whatever step raised it.
C9_HintAroundDiagnostic ==
  \A r \in Runs : (last[r].index >= 0 /\ last[r].primary # NoFault) =>
    LET text == last[r].primary.message
        message == ReportedMessage(r)
    IN /\ Contains(message, text)
       /\ \/ message = text
          \/ \E hint \in {CanvasHint, MagickHint} :
               message = <<"PDF conversion failed: ">> \o text \o <<hint>>
       /\ backend[r] = "memory" => (Hinted(message) <=> last[r].primary.kind = "conversion")
       /\ backend[r] = "file" => (Hinted(message) <=> mentionsPdf2pic(text))

\* a hint given for a fault that is no conversion fault
C9_Witness ==
  \E r \in Runs :
    /\ last[r].index >= 0 /\ last[r].primary.kind = "source"
    /\ Hinted(ReportedMessage(r))

\* C10: a successful output item has as many binary attachments as totalPages.
C10_AttachmentPerPage ==
  \A r \in Runs : \A i \in DOMAIN returnData[r] :
    IsNormal(returnData[r][i]) =>
      Cardinality(DOMAIN returnData[r][i].binary) = returnData[r][i].json.totalPages

====
